---- MODULE Spec2Model ----
(***************************************************************************)
(* Model of k8spurifier.application.Application: the aggregation of the    *)
(* parsed artifacts into the application object graph (parse_application), *)
(* the cluster capability probe (load_kubernetes_cluster_config) and the   *)
(* hand-over of the graph to the analysis scheduler (run_analyses).        *)
(*                                                                         *)
(* Python dictionaries that can be shared between two owners (a service's  *)
(* property mapping, an object's attached property snapshot) live in a     *)
(* heap and are referred to by address, so that copying and aliasing are   *)
(* different things in the model.                                          *)
(***************************************************************************)
EXTENDS Integers, Sequences, FiniteSets, TLC

\* ------------------------------------------------------------------ bounds
\* largest number of objects one parser invocation returns
MaxParsed == 2
\* largest number of artifacts the kubernetes glob matches
MaxK8sFiles == 2
\* largest number of entries of the config's properties section
MaxProps == 2

\* ------------------------------------------------------------ input values
ServiceNames == <<"orders", "users">>
UnknownService == "ghost"
RepoId == "repo"
UnknownRepo == "gone"
Paths == {"p1", "p2"}
K8sPaths == <<"k1", "k2", "k3">>
Absent == "<absent>"
Keys == {"tier"}
PropValues == {1, 2}

\* ------------------------------------------------------------------- heap
\* addresses of dictionaries: the i-th properties entry of the config owns
\* the dictionary at CfgAddr(i); dict(...) at lines 91/106 allocates the
\* dictionary at SnapAddr(kind, i, j) for the j-th object of service entry i
NoAddr == [tag |-> "none", kind |-> "none", src |-> 0, n |-> 0]
CfgAddr(i) == [tag |-> "cfg", kind |-> "cfg", src |-> i, n |-> 0]
SnapAddr(kind, i, j) == [tag |-> "snap", kind |-> kind, src |-> i, n |-> j]

Mappings == UNION {[ks -> PropValues] : ks \in SUBSET Keys}

\* ---------------------------------------------------------------- objects
NoObject == [kind |-> "none", path |-> Absent, src |-> 0, n |-> 0]
\* identity of an ApplicationObject: the parser invocation that created it
\* (src: index of the service entry or of the kubernetes artifact) and its
\* position in that invocation's output
Id(obj) == [kind |-> obj.kind, path |-> obj.path, src |-> obj.src, n |-> obj.n]

\* Service(service_name): no properties, no descriptor
NewService == [properties |-> NoAddr, dockerfile |-> NoObject]

NoConfig == [loaded |-> FALSE, services |-> <<>>, properties |-> <<>>,
             deployment |-> [kubernetes |-> FALSE, repository |-> Absent]]

VARIABLES
  disk,                \* the config file and the repositories' artifacts
  config,              \* self.config
  repositories,        \* self.repositories
  services,            \* self.services
  heap,                \* the dictionaries: address -> mapping
  application_objects, \* self.application_objects
  run_static,          \* self.run_static
  run_dynamic,         \* self.run_dynamic
  analysis_results,    \* self.analysis_results
  outcome,             \* how the last parse_application call ended
  log,                 \* parser invocations and failed lookups of that call
  probe,               \* how the last load_kube_config() attempt ended
  sched                \* arguments of the last scheduler invocation

vars == <<disk, config, repositories, services, heap, application_objects,
          run_static, run_dynamic, analysis_results, outcome, log,
          probe, sched>>

\* ------------------------------------------------------- parse_application
\* working state of one parse_application call
Start(failAt) ==
  [services |-> services, heap |-> heap, graph |-> <<>>,
   dockerfiles |-> <<>>, openapis |-> <<>>, log |-> <<>>,
   calls |-> 0, failAt |-> failAt, error |-> "ok"]

\* a dictionary subscript with a missing key
RaiseKeyError(st, key) ==
  [st EXCEPT !.error = "KeyError",
             !.log = Append(@, [op |-> "KeyError", path |-> key,
                                registry |-> st.services, result |-> <<>>])]

\* one parser.parse() call: it raises when it is the failAt-th invocation of
\* this call, and returns result otherwise
Invoke(st, kind, path, result) ==
  LET raised == (st.calls + 1 = st.failAt)
  IN [st EXCEPT !.calls = @ + 1,
                !.error = IF raised THEN "ParseError" ELSE @,
                !.log = Append(@, [op |-> kind, path |-> path,
                                   registry |-> st.services,
                                   result |-> IF raised THEN <<>> ELSE result])]

\* the objects a parser makes of the artifact at path
Parsed(repo, kind, path, src) ==
  [j \in 1..repo.yields[<<kind, path>>] |->
     [kind |-> kind, path |-> path, src |-> src, n |-> j,
      service_properties |-> NoAddr]]

RECURSIVE DeclareServices(_, _, _)
DeclareServices(st, cfg, i) ==
  IF i > Len(cfg.services) THEN st
  ELSE DeclareServices(
         [st EXCEPT !.services =
            [s \in DOMAIN st.services \cup {cfg.services[i].name} |->
               IF s = cfg.services[i].name THEN NewService
               ELSE st.services[s]]],
         cfg, i + 1)

RECURSIVE ApplyProperties(_, _, _)
ApplyProperties(st, cfg, i) ==
  IF i > Len(cfg.properties) \/ st.error # "ok" THEN st
  ELSE IF cfg.properties[i] \notin DOMAIN st.services
       THEN RaiseKeyError(st, cfg.properties[i])
       ELSE ApplyProperties(
              [st EXCEPT !.services[cfg.properties[i]].properties = CfgAddr(i)],
              cfg, i + 1)

\* keep the first object of every path
RECURSIVE Deduplicate(_, _, _)
Deduplicate(specs, seen, i) ==
  IF i > Len(specs) THEN <<>>
  ELSE IF specs[i].path \in seen THEN Deduplicate(specs, seen, i + 1)
       ELSE <<specs[i]>> \o Deduplicate(specs, seen \cup {specs[i].path}, i + 1)

RECURSIVE ParseKubernetesFiles(_, _, _)
\* variant: the kubernetes objects of an artifact are deduplicated by path too
ParseKubernetesFiles_dedup(st, repo, i) ==
  IF i > Len(repo.files) \/ st.error # "ok" THEN st
  ELSE LET objs == Parsed(repo, "k8s", repo.files[i], i)
           s1 == Invoke(st, "k8s", repo.files[i], objs)
       IN IF s1.error # "ok" THEN s1
          ELSE ParseKubernetesFiles(
                 [s1 EXCEPT !.graph = @ \o Deduplicate(objs, {}, 1)], repo, i + 1)

ParseKubernetesFiles(st, repo, i) ==
  IF i > Len(repo.files) \/ st.error # "ok" THEN st
  ELSE LET objs == Parsed(repo, "k8s", repo.files[i], i)
           s1 == Invoke(st, "k8s", repo.files[i], objs)
       IN IF s1.error # "ok" THEN s1
          ELSE ParseKubernetesFiles([s1 EXCEPT !.graph = @ \o objs], repo, i + 1)

ParseKubernetes(st, cfg, repos) ==
  IF st.error # "ok" \/ ~cfg.deployment.kubernetes THEN st
  ELSE IF cfg.deployment.repository \notin DOMAIN repos
       THEN RaiseKeyError(st, cfg.deployment.repository)
       ELSE ParseKubernetesFiles(st, repos[cfg.deployment.repository], 1)

\* variant: the object shares the service's own dictionary
Snapshot_alias(st, name, obj) ==
  IF st.services[name].properties = NoAddr THEN obj
  ELSE [obj EXCEPT !.service_properties = st.services[name].properties]

\* obj.service_properties = dict(service.properties)
Snapshot(st, name, obj) ==
  IF st.services[name].properties = NoAddr THEN obj
  ELSE [obj EXCEPT !.service_properties = SnapAddr(obj.kind, obj.src, obj.n)]

\* the dictionaries the snapshots of objs occupy
Allocate(st, name, objs) ==
  IF st.services[name].properties = NoAddr THEN st.heap
  ELSE LET new == {SnapAddr(objs[j].kind, objs[j].src, objs[j].n) : j \in DOMAIN objs}
       IN [a \in DOMAIN st.heap \cup new |->
             IF a \in new THEN st.heap[st.services[name].properties]
             ELSE st.heap[a]]

\* variant: the last object of the output becomes the descriptor
FirstOf_last(objs) == Id(objs[Len(objs)])

FirstOf(objs) == Id(objs[1])

ParseDockerfile(st, sd, i, repo) ==
  IF st.error # "ok" \/ sd.dockerfile = Absent THEN st
  ELSE LET raw == Parsed(repo, "docker", sd.dockerfile, i)
           s1 == Invoke(st, "docker", sd.dockerfile, raw)
           objs == [j \in DOMAIN raw |-> Snapshot(s1, sd.name, raw[j])]
       IN IF s1.error # "ok" THEN s1
          ELSE [s1 EXCEPT !.heap = Allocate(s1, sd.name, raw),
                          !.dockerfiles = @ \o objs,
                          !.services[sd.name].dockerfile =
                             IF Len(objs) > 0 THEN FirstOf(objs) ELSE @]

ParseOpenapi(st, sd, i, repo) ==
  IF st.error # "ok" \/ sd.openapi = Absent THEN st
  ELSE LET raw == Parsed(repo, "openapi", sd.openapi, i)
           s1 == Invoke(st, "openapi", sd.openapi, raw)
           objs == [j \in DOMAIN raw |-> Snapshot(s1, sd.name, raw[j])]
       IN IF s1.error # "ok" THEN s1
          ELSE [s1 EXCEPT !.heap = Allocate(s1, sd.name, raw),
                          !.openapis = @ \o objs,
                          !.services[sd.name].dockerfile =
                             IF Len(objs) > 0 THEN FirstOf(objs) ELSE @]

ParseService(st, sd, i, repos) ==
  IF sd.repository \notin DOMAIN repos
  THEN RaiseKeyError(st, sd.repository)
  ELSE ParseOpenapi(ParseDockerfile(st, sd, i, repos[sd.repository]),
                    sd, i, repos[sd.repository])

RECURSIVE ParseServices(_, _, _, _)
ParseServices(st, cfg, repos, i) ==
  IF i > Len(cfg.services) \/ st.error # "ok" THEN st
  ELSE ParseServices(ParseService(st, cfg.services[i], i, repos), cfg, repos, i + 1)

\* variant: every dockerfile candidate is appended
DeduplicateDockerfiles_all(st) ==
  IF st.error # "ok" THEN st
  ELSE [st EXCEPT !.graph = @ \o st.dockerfiles]

DeduplicateDockerfiles(st) ==
  IF st.error # "ok" THEN st
  ELSE [st EXCEPT !.graph = @ \o Deduplicate(st.dockerfiles, {}, 1)]

\* variant: the set of seen paths is not emptied between the two passes
DeduplicateOpenapis_shared(st) ==
  IF st.error # "ok" THEN st
  ELSE [st EXCEPT !.graph = @ \o
          Deduplicate(st.openapis,
                      {st.dockerfiles[k].path : k \in DOMAIN st.dockerfiles}, 1)]

DeduplicateOpenapis(st) ==
  IF st.error # "ok" THEN st
  ELSE [st EXCEPT !.graph = @ \o Deduplicate(st.openapis, {}, 1)]

\* variant: the properties are applied after the kubernetes artifacts are parsed
Aggregate_late_properties(cfg, repos, failAt) ==
  DeduplicateOpenapis(
    DeduplicateDockerfiles(
      ParseServices(
        ApplyProperties(
          ParseKubernetes(DeclareServices(Start(failAt), cfg, 1), cfg, repos),
          cfg, 1),
        cfg, repos, 1)))

\* lines 37-125: the whole call up to the assignment of line 130
Aggregate(cfg, repos, failAt) ==
  DeduplicateOpenapis(
    DeduplicateDockerfiles(
      ParseServices(
        ParseKubernetes(
          ApplyProperties(DeclareServices(Start(failAt), cfg, 1), cfg, 1),
          cfg, repos),
        cfg, repos, 1)))

\* variant: the graph is built in place, so a call that raises leaves its part
Publish_partial(st) == st.graph

\* line 130, reached only when nothing was raised
Publish(st) == IF st.error = "ok" THEN st.graph ELSE application_objects

\* the dictionaries that stay reachable from the modelled state: the config's
\* own, and the snapshots of the objects of the published graph
Reachable(st) ==
  IF st.error = "ok"
  THEN [a \in {b \in DOMAIN st.heap : b.tag = "cfg"} \cup
              ({st.graph[k].service_properties : k \in DOMAIN st.graph} \ {NoAddr})
          |-> st.heap[a]]
  ELSE heap

\* ------------------------------------------------------------- the inputs
\* what the config file and the repository can hold
Entries(name) ==
  [name : {name}, repository : {RepoId, UnknownRepo},
   dockerfile : Paths \cup {Absent}, openapi : Paths \cup {Absent}]

\* the services section: the first n names, each declared once
ServiceLists ==
  UNION {{l \in [1..n -> UNION {Entries(ServiceNames[i]) : i \in 1..n}] :
            \A i \in 1..n : l[i].name = ServiceNames[i]} :
         n \in 0..Len(ServiceNames)}

PropertyLists(len) ==
  UNION {[1..n -> {ServiceNames[i] : i \in DOMAIN ServiceNames} \cup {UnknownService}] :
         n \in 0..len}

NoDeployment == [kubernetes |-> FALSE, repository |-> Absent]
Deployments == {NoDeployment} \cup
               [kubernetes : {TRUE}, repository : {RepoId, UnknownRepo}]

FileLists(dep) ==
  IF dep.kubernetes /\ dep.repository = RepoId
  THEN {SubSeq(K8sPaths, 1, n) : n \in 0..MaxK8sFiles} ELSE {<<>>}

\* the artifacts a call can hand to a parser
Artifacts(svcs, files) ==
  {<<"k8s", files[i]>> : i \in DOMAIN files} \cup
  {<<"docker", svcs[i].dockerfile>> : i \in {j \in DOMAIN svcs : svcs[j].dockerfile # Absent}} \cup
  {<<"openapi", svcs[i].openapi>> : i \in {j \in DOMAIN svcs : svcs[j].openapi # Absent}}

\* disk holds a services section of SL, a properties section of PL and a
\* deployment of DL, and every artifact yields one of counts objects
DiskOver(SL, PL, DL, counts) ==
  \E sl \in SL, pl \in PL, dl \in DL :
    \E fl \in FileLists(dl) :
      \E y \in [Artifacts(sl, fl) -> counts] :
        disk = [config |-> [loaded |-> TRUE, services |-> sl, properties |-> pl,
                            deployment |-> dl],
                files |-> fl, yields |-> y]

Svc(name, repo, dockerfile, openapi) ==
  [name |-> name, repository |-> repo, dockerfile |-> dockerfile, openapi |-> openapi]

\* a few whole applications
FewServiceLists ==
  { <<>>,
    <<Svc("orders", RepoId, "p1", "p2")>>,
    <<Svc("orders", RepoId, "p1", "p1"), Svc("users", RepoId, "p1", Absent)>>,
    <<Svc("orders", RepoId, "p1", Absent), Svc("users", UnknownRepo, Absent, "p2")>> }

\* every services section, with no properties and no deployment; or every
\* properties section and deployment, with few services sections
WideDisk ==
  \/ DiskOver(ServiceLists, {<<>>}, {NoDeployment}, 0..MaxParsed)
  \/ DiskOver(FewServiceLists, PropertyLists(MaxProps), Deployments, {0, MaxParsed})

FewDisk ==
  DiskOver(FewServiceLists, PropertyLists(1),
           {NoDeployment, [kubernetes |-> TRUE, repository |-> RepoId]},
           {MaxParsed})

\* ------------------------------------------------------------------- Init
Constructed ==
  /\ config = NoConfig
  /\ repositories = <<>>
  /\ services = <<>>
  /\ heap = <<>>
  /\ application_objects = <<>>
  /\ run_static = TRUE
  /\ run_dynamic = TRUE
  /\ analysis_results = <<>>
  /\ outcome = "none"
  /\ log = <<>>
  /\ probe = "untried"
  /\ sched = [called |-> FALSE, static |-> FALSE, dynamic |-> FALSE,
              objects |-> <<>>, failing |-> {}]

Init == Constructed /\ FewDisk

InitAggregation == Constructed /\ WideDisk

\* ---------------------------------------------------------------- actions
\* the configuration is acquired once in the life of an Application
aquire_application ==
  /\ ~config.loaded
  /\ config' = disk.config
  /\ repositories' = (RepoId :> [files |-> disk.files, yields |-> disk.yields])
  /\ heap' = [a \in {CfgAddr(i) : i \in DOMAIN disk.config.properties} |->
                [k \in Keys |-> 1]]
  /\ UNCHANGED <<disk, services, application_objects, run_static, run_dynamic,
                 analysis_results, outcome, log, probe, sched>>

\* the number of parser invocations of a call that raises nowhere
Invocations == Len(disk.files) + 2 * Len(disk.config.services)

Call(failAt) ==
  IF config.loaded THEN Aggregate(config, repositories, failAt)
  ELSE [Start(failAt) EXCEPT !.error = "AttributeError"]

parse_application ==
  \E failAt \in 0..Invocations :
    LET st == Call(failAt)
    IN /\ services' = st.services
       /\ heap' = Reachable(st)
       /\ application_objects' = Publish(st)
       /\ outcome' = st.error
       /\ log' = st.log
       /\ UNCHANGED <<disk, config, repositories, run_static, run_dynamic,
                      analysis_results, probe, sched>>

\* a caller adds, replaces or removes a key of a service's property mapping
SetKey(m, k, v) == [x \in DOMAIN m \cup {k} |-> IF x = k THEN v ELSE m[x]]
DelKey(m, k) == [x \in DOMAIN m \ {k} |-> m[x]]

MutateServiceProperties ==
  \E s \in DOMAIN services, k \in Keys :
    /\ services[s].properties # NoAddr
    /\ \E m \in {SetKey(heap[services[s].properties], k, v) : v \in PropValues}
               \cup {DelKey(heap[services[s].properties], k)} :
         heap' = [heap EXCEPT ![services[s].properties] = m]
    /\ UNCHANGED <<disk, config, repositories, services, application_objects,
                   run_static, run_dynamic, analysis_results, outcome, log,
                   probe, sched>>

\* variant: a successful load switches the dynamic analyses back on
load_kubernetes_cluster_config_reset ==
  \E loaded \in BOOLEAN :
    /\ probe' = IF loaded THEN "loaded" ELSE "failed"
    /\ run_dynamic' = loaded
    /\ UNCHANGED <<disk, config, repositories, services, heap,
                   application_objects, run_static, analysis_results, outcome,
                   log, sched>>

\* config.load_kube_config() returns (loaded) or raises
load_kubernetes_cluster_config ==
  \E loaded \in BOOLEAN :
    /\ probe' = IF loaded THEN "loaded" ELSE "failed"
    /\ run_dynamic' = IF loaded THEN run_dynamic ELSE FALSE
    /\ UNCHANGED <<disk, config, repositories, services, heap,
                   application_objects, run_static, analysis_results, outcome,
                   log, sched>>

\* -------------------------------------------------------------- scheduler
\* the registered analyses, in registration order
Registry ==
  << [name |-> "S1", capability |-> "static"],
     [name |-> "D1", capability |-> "dynamic"],
     [name |-> "S2", capability |-> "static"] >>

AnalysisNames == {Registry[i].name : i \in DOMAIN Registry}

Enabled(analysis, static, dynamic) ==
  IF analysis.capability = "static" THEN static ELSE dynamic

\* one analysis: skipped, or run; a run that fails contributes nothing
RunOne(analysis, static, dynamic, failing) ==
  IF ~Enabled(analysis, static, dynamic) \/ analysis.name \in failing THEN <<>>
  ELSE <<[generating_analysis |-> analysis.name]>>

RECURSIVE RunFrom_abort(_, _, _, _)
\* variant: the first analysis that fails ends the schedule
RunFrom_abort(i, static, dynamic, failing) ==
  IF i > Len(Registry) THEN <<>>
  ELSE IF Enabled(Registry[i], static, dynamic) /\ Registry[i].name \in failing
       THEN <<>>
       ELSE RunOne(Registry[i], static, dynamic, failing)
            \o RunFrom_abort(i + 1, static, dynamic, failing)

RECURSIVE RunFrom(_, _, _, _)
RunFrom(i, static, dynamic, failing) ==
  IF i > Len(Registry) THEN <<>>
  ELSE RunOne(Registry[i], static, dynamic, failing)
       \o RunFrom(i + 1, static, dynamic, failing)

\* AnalysisScheduler(objects).run_analyses(static, dynamic)
SchedulerRun(objects, static, dynamic, failing) ==
  RunFrom(1, static, dynamic, failing)

run_analyses ==
  \E failing \in SUBSET AnalysisNames :
    /\ analysis_results' = SchedulerRun(application_objects, run_static, run_dynamic, failing)
    /\ sched' = [called |-> TRUE, static |-> run_static, dynamic |-> run_dynamic,
                 objects |-> application_objects, failing |-> failing]
    /\ UNCHANGED <<disk, config, repositories, services, heap,
                   application_objects, run_static, run_dynamic, outcome, log,
                   probe>>

\* ------------------------------------------------------- specifications
Next ==
  \/ aquire_application
  \/ parse_application
  \/ MutateServiceProperties
  \/ load_kubernetes_cluster_config
  \/ run_analyses

Spec == Init /\ [][Next]_vars

\* one application after another from a wide range of configurations, up to
\* the end of the aggregation
NextAggregation ==
  \/ aquire_application
  \/ parse_application

SpecAggregation == InitAggregation /\ [][NextAggregation]_vars

\* ================================================================ properties
\* the objects the parsers of one kind returned during the last call, in
\* invocation order
RECURSIVE ReturnedFrom(_, _)
ReturnedFrom(kind, i) ==
  IF i > Len(log) THEN <<>>
  ELSE (IF log[i].op = kind THEN log[i].result ELSE <<>>) \o ReturnedFrom(kind, i + 1)

Returned(kind) == ReturnedFrom(kind, 1)

OfKind(objs, kind) == SelectSeq(objs, LAMBDA o : o.kind = kind)

PathsOf(objs) == {objs[k].path : k \in DOMAIN objs}

\* kept holds one object per path of cands: the first of cands with that path
FirstPerPath(kept, cands) ==
  /\ Len(kept) = Cardinality(PathsOf(cands))
  /\ \A i, j \in DOMAIN kept : i # j => kept[i].path # kept[j].path
  /\ \A i \in DOMAIN kept :
       \E c \in DOMAIN cands :
         /\ Id(cands[c]) = Id(kept[i])
         /\ \A d \in 1..(c - 1) : cands[d].path # kept[i].path

\* cands is in service-declaration order
InDeclarationOrder(cands) ==
  \A c, d \in DOMAIN cands : c < d => cands[c].src <= cands[d].src

\* C1: after a successful parse_application the graph holds exactly one
\* Dockerfile-derived object per distinct path the Dockerfile parsers returned,
\* and it is the first one returned in service-declaration order.
C1_DockerfileDeduplication ==
  outcome = "ok" =>
    /\ InDeclarationOrder(Returned("docker"))
    /\ FirstPerPath(OfKind(application_objects, "docker"), Returned("docker"))

C1_Witness ==
  /\ outcome = "ok"
  /\ Len(Returned("docker")) > 2
  /\ \E c, d \in DOMAIN Returned("docker") :
       /\ Returned("docker")[c].src # Returned("docker")[d].src
       /\ Returned("docker")[c].path = Returned("docker")[d].path

\* C2: the OpenAPI-derived objects of the graph are deduplicated by path on
\* their own (first kept), whatever paths the Dockerfile-derived objects have:
\* a path both kinds returned is kept once for each kind.
C2_OpenapiDeduplication ==
  outcome = "ok" =>
    /\ FirstPerPath(OfKind(application_objects, "openapi"), Returned("openapi"))
    /\ \A p \in PathsOf(Returned("docker")) \cap PathsOf(Returned("openapi")) :
         /\ p \in PathsOf(OfKind(application_objects, "docker"))
         /\ p \in PathsOf(OfKind(application_objects, "openapi"))

C2_Witness ==
  /\ outcome = "ok"
  /\ Len(Returned("openapi")) > Len(OfKind(application_objects, "openapi"))
  /\ PathsOf(OfKind(application_objects, "docker"))
       \cap PathsOf(OfKind(application_objects, "openapi")) # {}

\* the property snapshot attached to the k-th object of the graph
SnapshotOf(k) ==
  IF application_objects[k].service_properties = NoAddr THEN <<>>
  ELSE heap[application_objects[k].service_properties]

\* a step that changes the content of a service's property mapping
MutationStep ==
  \E s \in DOMAIN services :
    /\ services[s].properties \in DOMAIN heap
    /\ services[s].properties \in DOMAIN heap'
    /\ heap'[services[s].properties] # heap[services[s].properties]

\* C3: no object of the graph shares its property snapshot with a service,
\* and a change of a service's property mapping changes no snapshot.
C3_PropertyIsolation ==
  /\ [](\A k \in DOMAIN application_objects, s \in DOMAIN services :
         application_objects[k].service_properties # NoAddr
           => application_objects[k].service_properties # services[s].properties)
  /\ [][MutationStep =>
          /\ application_objects' = application_objects
          /\ \A k \in DOMAIN application_objects : SnapshotOf(k)' = SnapshotOf(k)]_vars

C3_Witness ==
  /\ outcome = "ok"
  /\ \E k \in DOMAIN application_objects :
       /\ application_objects[k].service_properties # NoAddr
       /\ SnapshotOf(k) # heap[services[config.services[application_objects[k].src].name].properties]

\* the descriptor the i-th service entry must end with
ExpectedDescriptor(i) ==
  LET O == SelectSeq(Returned("openapi"), LAMBDA o : o.src = i)
      D == SelectSeq(Returned("docker"), LAMBDA o : o.src = i)
  IN IF O # <<>> THEN Id(O[1])
     ELSE IF D # <<>> THEN Id(D[1])
     ELSE NoObject

ExpectedObjects ==
  LET repo == repositories[RepoId]
      first(kind, i, p) ==
        /\ p # Absent
        /\ repo.yields[<<kind, p>>] > 0
  IN {[kind |-> "k8s", path |-> repo.files[i], src |-> i, n |-> j] :
        i \in IF config.deployment.kubernetes THEN DOMAIN repo.files ELSE {},
        j \in 1..MaxParsed}
     \cup
     {[kind |-> "docker", path |-> config.services[i].dockerfile, src |-> i, n |-> 1] :
        i \in {x \in DOMAIN config.services :
                 /\ first("docker", x, config.services[x].dockerfile)
                 /\ \A y \in 1..(x - 1) :
                      config.services[y].dockerfile # config.services[x].dockerfile}}
     \cup
     {[kind |-> "openapi", path |-> config.services[i].openapi, src |-> i, n |-> 1] :
        i \in {x \in DOMAIN config.services :
                 /\ first("openapi", x, config.services[x].openapi)
                 /\ \A y \in 1..(x - 1) :
                      config.services[y].openapi # config.services[x].openapi}}

Complete(graph) ==
  \/ graph = <<>>
  \/ /\ config.loaded
     /\ {Id(graph[k]) : k \in DOMAIN graph} =
          {o \in ExpectedObjects :
             o.kind = "k8s" => o.n <= repositories[RepoId].yields[<<"k8s", o.path>>]}
     /\ \A k, l \in DOMAIN graph : Id(graph[k]) = Id(graph[l]) => k = l

\* C5: application_objects is always the empty list or the complete graph of
\* the configuration, so is every graph handed to the scheduler, and a
\* parse_application call that fails leaves application_objects as it was.
C5_NoPartialGraph ==
  /\ [](Complete(application_objects) /\ Complete(sched.objects))
  /\ [][outcome' # "ok" => application_objects' = application_objects]_vars

C5_Witness ==
  /\ outcome = "ParseError"
  /\ \E i \in DOMAIN log : log[i].result # <<>>
  /\ application_objects # <<>>
  /\ sched.called
  /\ sched.objects = application_objects

\* the configuration names a service or a repository that does not exist
UnknownPropertyService ==
  \E i \in DOMAIN config.properties :
    config.properties[i] \notin {config.services[j].name : j \in DOMAIN config.services}

UnknownDeploymentRepository ==
  config.deployment.kubernetes /\ config.deployment.repository \notin DOMAIN repositories

UnknownServiceRepository ==
  \E i \in DOMAIN config.services : config.services[i].repository \notin DOMAIN repositories

ParserEvents == {i \in DOMAIN log : log[i].op \in {"k8s", "docker", "openapi"}}

\* C6: every call on a configuration that names an unknown service or an
\* unknown repository ends with the error of the failed lookup, not with a
\* parser's error, and the failed lookup is the last thing the call does.
C6_ConfigurationErrors ==
  (config.loaded /\ outcome \notin {"none", "AttributeError"}) =>
    /\ (UnknownPropertyService \/ UnknownDeploymentRepository \/ UnknownServiceRepository)
         => (/\ outcome = "KeyError"
             /\ log # <<>>
             /\ log[Len(log)].op = "KeyError")
    /\ \A i \in DOMAIN log :
         log[i].op = "KeyError" => (i = Len(log) /\ outcome = "KeyError")

\* C7: a failed cluster-config load returns normally with the dynamic flag
\* off and the static flag and the graph untouched; the dynamic flag, once
\* off, stays off, and every scheduler invocation made while it is off gets
\* static enabled and dynamic disabled.
C7_ProbeDowngrade ==
  /\ [](run_static /\ (probe = "failed" => ~run_dynamic))
  /\ [][(probe' = "failed" /\ probe # "failed") =>
          /\ ~run_dynamic'
          /\ UNCHANGED <<run_static, application_objects>>]_vars
  /\ [][~run_dynamic => ~run_dynamic']_vars
  /\ [][(~run_dynamic /\ sched' # sched) =>
          (sched'.called /\ sched'.static /\ ~sched'.dynamic)]_vars

C7_Witness ==
  /\ probe = "loaded"
  /\ ~run_dynamic
  /\ sched.called
  /\ sched.static
  /\ ~sched.dynamic
  /\ analysis_results # <<>>

ResultOf(name) ==
  \E k \in DOMAIN analysis_results : analysis_results[k].generating_analysis = name

\* C8: of two registered analyses, one that fails and one that is enabled and
\* does not fail, the results returned by the scheduler hold the result of
\* the second and none of the first, whichever was registered first.
C8_FailureIsolation ==
  sched.called =>
    \A a, b \in DOMAIN Registry :
      (/\ Registry[a].name \in sched.failing
       /\ Registry[b].name \notin sched.failing
       /\ Enabled(Registry[b], sched.static, sched.dynamic))
      => (ResultOf(Registry[b].name) /\ ~ResultOf(Registry[a].name))

C8_Witness ==
  /\ sched.called
  /\ sched.dynamic
  /\ sched.failing = {Registry[1].name}
  /\ Len(analysis_results) = 2

KindRank(kind) == IF kind = "k8s" THEN 1 ELSE IF kind = "docker" THEN 2 ELSE 3

\* C9: after a successful parse_application the graph starts with every
\* object the Kubernetes parsers returned, in the order they returned them
\* and with no object dropped, followed by the Dockerfile-derived objects,
\* followed by the OpenAPI-derived objects.
C9_KubernetesFirstAndWhole ==
  outcome = "ok" =>
    /\ Len(application_objects) >= Len(Returned("k8s"))
    /\ SubSeq(application_objects, 1, Len(Returned("k8s"))) = Returned("k8s")
    /\ \A k, l \in DOMAIN application_objects :
         k < l => KindRank(application_objects[k].kind) <= KindRank(application_objects[l].kind)

C9_Witness ==
  /\ outcome = "ok"
  /\ \E k, l \in DOMAIN application_objects :
       /\ k < l
       /\ application_objects[k].kind = "k8s"
       /\ application_objects[l].kind = "k8s"
       /\ application_objects[k].path = application_objects[l].path
  /\ Cardinality(PathsOf(Returned("k8s"))) > 1
  /\ OfKind(application_objects, "docker") # <<>>
  /\ OfKind(application_objects, "openapi") # <<>>

\* the dictionary the properties section gives a service: that of its last entry
DeclaredProperties(name) ==
  LET idx == {i \in DOMAIN config.properties : config.properties[i] = name}
  IN IF idx = {} THEN NoAddr
     ELSE CfgAddr(CHOOSE i \in idx : \A j \in idx : j <= i)

\* C10: whenever a parser is invoked the registry holds every declared
\* service with its declared properties, and the set of registered services
\* is the same at every invocation and at the end of the call.
C10_RegistryReadyBeforeParsing ==
  \A e \in ParserEvents :
    /\ \A i \in DOMAIN config.services :
         /\ config.services[i].name \in DOMAIN log[e].registry
         /\ log[e].registry[config.services[i].name].properties
              = DeclaredProperties(config.services[i].name)
    /\ DOMAIN log[e].registry = DOMAIN services

C10_Witness ==
  /\ \E e \in ParserEvents :
       /\ log[e].op = "k8s"
       /\ \E s \in DOMAIN log[e].registry :
            log[e].registry[s].properties = CfgAddr(2)
  /\ \E e \in ParserEvents : log[e].op = "openapi"
  /\ Len(config.services) = 2

====
